---- MODULE Spec2Model ----
(***************************************************************************)
(* Model of the pybricksdev command line wrapper                           *)
(* (src/pybricksdev/cli/__init__.py): main() parses the arguments, picks   *)
(* one registered tool and runs it; Run.run picks a connection, connects,  *)
(* runs the script and disconnects; Flash.run picks a flashing backend.    *)
(*                                                                         *)
(* Texts (the value of --name, addresses, messages) are sequences of       *)
(* string tokens.  A user supplied name is tokenised one character per     *)
(* token so that the IPv4 check can be computed on it; an optional value   *)
(* is a sequence of length 0 (None) or 1 (the value).                      *)
(***************************************************************************)
EXTENDS Integers, Sequences, FiniteSets, TLC

VARIABLES
    argv,               \* the command line the process was started with
    pc,                 \* position of the single task of the process
    args,               \* argparse.Namespace produced by parse_args
    log_level,          \* level handed to logging.basicConfig
    invoked,            \* Tool classes whose run() has been invoked, in order
    calls,              \* calls made to collaborators, in order
    script_path,        \* local script_path of Run.run / Compile.run
    hub,                \* the transport object of Run.run / Flash.run
    device_or_address,  \* optional: local device_or_address / device
    metadata,           \* optional: device-id of the firmware metadata
    pending,            \* exception held by the try block while finally runs
    raised,             \* exception that left the task ("None": none)
    context,            \* __context__ of the raised exception
    stderr,             \* messages written to stderr by the program itself
    exit_code,          \* process exit status (-1: still running)
    remote,             \* the user program on the hub: idle, running, terminated
    first               \* optional: what an earlier invocation of the same
                        \* command line with other global flags did

vars == <<argv, pc, args, log_level, invoked, calls, script_path, hub,
          device_or_address, metadata, pending, raised, context, stderr,
          exit_code, remote, first>>

-----------------------------------------------------------------------------
(* Texts *)

None == <<>>

Some(v) == <<v>>

Digits == {"0", "1", "2", "3", "4", "5", "6", "7", "8", "9"}

DigitVal(c) ==
    CASE c = "0" -> 0 [] c = "1" -> 1 [] c = "2" -> 2 [] c = "3" -> 3
      [] c = "4" -> 4 [] c = "5" -> 5 [] c = "6" -> 6 [] c = "7" -> 7
      [] c = "8" -> 8 [] c = "9" -> 9

\* str.split(sep): the pieces of s between the occurrences of sep
RECURSIVE SplitFrom(_, _, _, _)
SplitFrom(s, sep, i, cur) ==
    IF i > Len(s) THEN <<cur>>
    ELSE IF s[i] = sep THEN <<cur>> \o SplitFrom(s, sep, i + 1, <<>>)
    ELSE SplitFrom(s, sep, i + 1, Append(cur, s[i]))

Split(s, sep) == SplitFrom(s, sep, 1, <<>>)

\* str.isdigit(): non-empty and made of digits only
IsDigit(x) == Len(x) > 0 /\ \A i \in 1..Len(x) : x[i] \in Digits

\* int(part) of a string of digits
RECURSIVE ToInt(_)
ToInt(x) ==
    IF Len(x) = 0 THEN 0
    ELSE 10 * ToInt(SubSeq(x, 1, Len(x) - 1)) + DigitVal(x[Len(x)])

\* sep.join(names)
RECURSIVE Join(_, _)
Join(names, sep) ==
    IF Len(names) = 0 THEN <<>>
    ELSE IF Len(names) = 1 THEN <<names[1]>>
    ELSE <<names[1], sep>> \o Join(Tail(names), sep)

\* validators.ip_address.ipv4(value): four dot separated groups of digits,
\* each in 0..255
ipv4(value) ==
    LET groups == Split(value, ".")
    IN  IF Len(groups) # 4 \/ \E i \in 1..Len(groups) : ~IsDigit(groups[i])
        THEN FALSE
        ELSE \A i \in 1..Len(groups) :
                 0 <= ToInt(groups[i]) /\ ToInt(groups[i]) < 256

-----------------------------------------------------------------------------
(* The command registry built by the add_parser calls *)

\* the name each Tool class registers itself under
ParserName(tool) ==
    CASE tool = "Compile" -> "compile"
      [] tool = "Run" -> "run"
      [] tool = "Flash" -> "flash"
      [] tool = "DFU" -> "dfu"
      [] tool = "LWP3" -> "lwp3"
      [] tool = "Udev" -> "udev"
      [] tool = "DFUBackup" -> "backup"
      [] tool = "DFURestore" -> "restore"
      [] tool = "LWP3Repl" -> "repl"

MainTools_without_udev == <<"Compile", "Run", "Flash", "DFU", "LWP3">>

\* the tools main() registers, in order
MainTools == <<"Compile", "Run", "Flash", "DFU", "LWP3", "Udev">>

\* the tools DFU.add_parser registers
DFUTools == <<"DFUBackup", "DFURestore">>

\* the tools LWP3.add_parser registers
LWP3Tools == <<"LWP3Repl">>

\* subparsers.choices.keys() after registering tools
Choices(tools) == [i \in 1..Len(tools) |-> ParserName(tools[i])]

Keys(choices) == {choices[i] : i \in 1..Len(choices)}

\* subparsers.choices[name].tool
ToolOf(tools, name) ==
    CHOOSE t \in {tools[i] : i \in 1..Len(tools)} : ParserName(t) = name

\* choices of the <connection type> argument of run
ConnTypeChoices == {"ble", "usb", "ssh"}

\* choices of the --wait option of run
WaitChoices == {"True", "False"}

-----------------------------------------------------------------------------
(* Command lines *)

Text_192_168_1_2 == <<"1", "9", "2", ".", "1", "6", "8", ".", "1", ".", "2">>

Text_my_hub_local == <<"m", "y", "-", "h", "u", "b", ".", "l", "o", "c", "a", "l">>

Text_lego == <<"l", "e", "g", "o">>

NameTexts ==
    { Text_192_168_1_2,
      Text_my_hub_local,
      Text_lego,
      <<"0", ".", "0", ".", "0", ".", "2", "5", "5">>,
      <<"1", ".", "2", ".", "3", ".", "2", "5", "6">>,
      <<"1", ".", "2", ".", "3">>,
      <<"1", ".", "2", ".", "3", ".", "4", ".", "5">>,
      <<"1", ".", ".", "2", ".", "3">>,
      <<"1", ".", "2", ".", "3", ".", "x">>,
      <<"C", "O", "M", "3">>,
      <<>> }

\* values of --name: absent, or one of the texts
NameArgs == {None} \cup {Some(t) : t \in NameTexts}

\* the namespace of a command line that names no tool and sets no option
Namespace0 ==
    [tool |-> "None", debug |-> FALSE, conntype |-> "None", name |-> None,
     wait |-> "True", inline |-> FALSE, action |-> "None",
     lwp3_tool |-> "None"]

Flags == [debug : BOOLEAN, version : BOOLEAN, help : BOOLEAN]

\* a command line: the global flags, the words after them, and whether the
\* firmware file named on it can be opened
Line(f, ns, firmware_ok) ==
    [flags |-> f, ns |-> [ns EXCEPT !.debug = f.debug], firmware_ok |-> firmware_ok]

Argv ==
    {Line(f, [Namespace0 EXCEPT !.tool = t], TRUE) :
        f \in Flags, t \in {"None", "compile", "udev", "bogus"}}
    \cup
    {Line(f, [Namespace0 EXCEPT !.tool = "compile", !.inline = i], TRUE) :
        f \in Flags, i \in BOOLEAN}
    \cup
    {Line(f, [Namespace0 EXCEPT !.tool = "run", !.conntype = c, !.name = n,
                                !.wait = w, !.inline = i], TRUE) :
        f \in Flags, c \in ConnTypeChoices \cup {"tcp"}, n \in NameArgs,
        w \in WaitChoices \cup {"yes"}, i \in BOOLEAN}
    \cup
    {Line(f, [Namespace0 EXCEPT !.tool = "flash"], ok) :
        f \in Flags, ok \in BOOLEAN}
    \cup
    {Line(f, [Namespace0 EXCEPT !.tool = "dfu", !.action = a], ok) :
        f \in Flags, a \in {"None", "backup", "restore", "erase"}, ok \in BOOLEAN}
    \cup
    {Line(f, [Namespace0 EXCEPT !.tool = "lwp3", !.lwp3_tool = l], TRUE) :
        f \in Flags, l \in {"None", "repl", "shell"}}

ParseOutcome_debug_exits(line) ==
    LET ns == line.ns
    IN  IF line.flags.help THEN "help"
        ELSE IF line.flags.version \/ line.flags.debug THEN "version"
        ELSE IF ns.tool = "None" THEN "ok"
        ELSE IF ns.tool \notin Keys(Choices(MainTools)) THEN "error"
        ELSE IF ns.tool = "run" /\ ns.conntype \notin ConnTypeChoices THEN "error"
        ELSE IF ns.tool = "run" /\ ns.wait \notin WaitChoices THEN "error"
        ELSE IF ns.tool = "flash" /\ ~line.firmware_ok THEN "error"
        ELSE IF ns.tool = "dfu" /\ ns.action # "None"
                /\ ns.action \notin Keys(Choices(DFUTools)) THEN "error"
        ELSE IF ns.tool = "dfu" /\ ns.action # "None" /\ ~line.firmware_ok
             THEN "error"
        ELSE IF ns.tool = "lwp3" /\ ns.lwp3_tool # "None"
                /\ ns.lwp3_tool \notin Keys(Choices(LWP3Tools)) THEN "error"
        ELSE "ok"

\* what parse_args does with a command line: "version" and "help" print
\* and exit 0, "error" is parser.error (exit 2), "ok" returns the namespace
ParseOutcome(line) ==
    LET ns == line.ns
    IN  IF line.flags.help THEN "help"
        ELSE IF line.flags.version THEN "version"
        ELSE IF ns.tool = "None" THEN "ok"
        ELSE IF ns.tool \notin Keys(Choices(MainTools)) THEN "error"
        ELSE IF ns.tool = "run" /\ ns.conntype \notin ConnTypeChoices THEN "error"
        ELSE IF ns.tool = "run" /\ ns.wait \notin WaitChoices THEN "error"
        ELSE IF ns.tool = "flash" /\ ~line.firmware_ok THEN "error"
        ELSE IF ns.tool = "dfu" /\ ns.action # "None"
                /\ ns.action \notin Keys(Choices(DFUTools)) THEN "error"
        ELSE IF ns.tool = "dfu" /\ ns.action # "None" /\ ~line.firmware_ok
             THEN "error"
        ELSE IF ns.tool = "lwp3" /\ ns.lwp3_tool # "None"
                /\ ns.lwp3_tool \notin Keys(Choices(LWP3Tools)) THEN "error"
        ELSE "ok"

\* the message of argparse for a word that is none of the choices of its
\* argument
InvalidChoice(value, choices) ==
    <<"invalid choice: ", value, " (choose from ">> \o Join(choices, ", ") \o <<")">>

\* the message parser.error gets when parse_args refuses a command line
ParseMessage(line) ==
    LET ns == line.ns
    IN  IF ns.tool \notin Keys(Choices(MainTools))
        THEN InvalidChoice(ns.tool, Choices(MainTools))
        ELSE IF ns.tool = "run" /\ ns.conntype \notin ConnTypeChoices
        THEN InvalidChoice(ns.conntype, <<"ble", "usb", "ssh">>)
        ELSE IF ns.tool = "run" /\ ns.wait \notin WaitChoices
        THEN InvalidChoice(ns.wait, <<"True", "False">>)
        ELSE IF ns.tool = "dfu" /\ ns.action # "None"
                /\ ns.action \notin Keys(Choices(DFUTools))
        THEN InvalidChoice(ns.action, Choices(DFUTools))
        ELSE IF ns.tool = "lwp3" /\ ns.lwp3_tool # "None"
                /\ ns.lwp3_tool \notin Keys(Choices(LWP3Tools))
        THEN InvalidChoice(ns.lwp3_tool, Choices(LWP3Tools))
        ELSE <<"can't open firmware file">>

-----------------------------------------------------------------------------
(* State *)

NoHub == [kind |-> "None", state |-> "None"]

Init ==
    /\ argv \in Argv
    /\ pc = "parse_args"
    /\ args = Namespace0
    /\ log_level = "NOTSET"
    /\ invoked = <<>>
    /\ calls = <<>>
    /\ script_path = None
    /\ hub = NoHub
    /\ device_or_address = None
    /\ metadata = None
    /\ pending = "None"
    /\ raised = "None"
    /\ context = "None"
    /\ stderr = <<>>
    /\ exit_code = -1
    /\ remote = "idle"
    /\ first = None

sessionVars == <<argv, first, remote, script_path, hub, device_or_address, metadata, pending>>

\* a call to a collaborator, with its arguments and how it ended ("ok" or
\* the exception it raised)
Call(fn, arg, result) ==
    [fn |-> fn, arg |-> arg, result |-> result, value |-> None]

\* a call that returned a value the caller goes on to read
Returned(fn, arg, value) ==
    [fn |-> fn, arg |-> arg, result |-> "ok", value |-> Some(value)]

BoolText(b) == IF b THEN "True" ELSE "False"

\* the task goes on at position next
Goto(next) ==
    /\ pc' = next
    /\ UNCHANGED <<raised, context, stderr, exit_code>>

\* exception exc (raised while ctx was being handled) leaves the task and
\* ends the process
Raise(exc, ctx) ==
    /\ pc' = "done"
    /\ raised' = exc
    /\ context' = ctx
    /\ exit_code' = 1
    /\ UNCHANGED stderr

\* sys.exit(code) after writing msgs to stderr
SysExit(code, msgs) ==
    /\ pc' = "done"
    /\ raised' = "SystemExit"
    /\ context' = "None"
    /\ exit_code' = code
    /\ stderr' = stderr \o msgs

\* ArgumentParser.error(message): message to stderr, exit status 2
ParserError(message) == SysExit(2, <<message>>)

\* the coroutine returns and the process ends normally
Return ==
    /\ pc' = "done"
    /\ exit_code' = 0
    /\ UNCHANGED <<raised, context, stderr>>

\* the f-string 'Missing name of <what>: {"|".join(choices.keys())}'
MissingName(what, choices) == <<"Missing name of ", what, ": ">> \o Join(choices, "|")

-----------------------------------------------------------------------------
(* main() *)

\* args = parser.parse_args()
ParseArgs ==
    /\ pc = "parse_args"
    /\ LET outcome == ParseOutcome(argv)
        IN  CASE outcome = "ok" ->
                    /\ args' = argv.ns
                    /\ Goto("basicConfig")
              [] outcome \in {"help", "version"} ->
                    /\ SysExit(0, <<>>)
                    /\ UNCHANGED args
              [] outcome = "error" ->
                    /\ ParserError(ParseMessage(argv))
                    /\ UNCHANGED args
    /\ UNCHANGED <<log_level, invoked, calls, sessionVars>>

\* logging.basicConfig(level=DEBUG if args.debug else WARNING)
BasicConfig ==
    /\ pc = "basicConfig"
    /\ log_level' = IF args.debug THEN "DEBUG" ELSE "WARNING"
    /\ Goto("check_tool")
    /\ UNCHANGED <<args, invoked, calls, sessionVars>>

\* if not args.tool: parser.error(...)
CheckTool ==
    /\ pc = "check_tool"
    /\ IF args.tool = "None"
       THEN ParserError(MissingName("tool", Choices(MainTools)))
       ELSE Goto("dispatch")
    /\ UNCHANGED <<args, log_level, invoked, calls, sessionVars>>

\* first position of the run method of a Tool class
Entry(tool) ==
    CASE tool = "Compile" -> "compile_script"
      [] tool = "Run" -> "run_script"
      [] tool = "Flash" -> "flash_create_firmware"
      [] tool = "DFU" -> "dfu_run"
      [] tool = "LWP3" -> "lwp3_run"
      [] tool = "Udev" -> "udev_run"
      [] tool = "DFUBackup" -> "dfu_backup"
      [] tool = "DFURestore" -> "dfu_restore"
      [] tool = "LWP3Repl" -> "lwp3_repl"

Dispatch_twice ==
    /\ pc = "dispatch"
    /\ LET tool == ToolOf(MainTools, args.tool)
       IN  /\ invoked' = invoked \o <<tool, tool>>
           /\ Goto(Entry(tool))
    /\ UNCHANGED <<args, log_level, calls, sessionVars>>

\* asyncio.run(subparsers.choices[args.tool].tool.run(args))
Dispatch ==
    /\ pc = "dispatch"
    /\ LET tool == ToolOf(MainTools, args.tool)
       IN  /\ invoked' = Append(invoked, tool)
           /\ Goto(Entry(tool))
    /\ UNCHANGED <<args, log_level, calls, sessionVars>>

-----------------------------------------------------------------------------
(* Run.run *)

\* args.script as given on the command line
ArgScript == <<"<script>">>

\* the path save_script returns for an inline script
save_script(script_arg) == <<"save_script">> \o script_arg

\* the path flatten returns
flatten(path) == <<"flatten">> \o path

\* the device find_device returns for a name
find_device(name) == <<"BLEDevice">> \o (IF name = None THEN <<>> ELSE name[1])

LegoLabel == <<"LEGO Technic Large Hub in FS Mode">>

\* script_path = _parse_script_arg(args.script), the task going on at next
ParseScriptArg(next) ==
    \E exists \in BOOLEAN :
        IF exists
        THEN /\ script_path' = Some(ArgScript)
             /\ calls' = Append(calls, Returned("path.exists", <<ArgScript>>, "True"))
             /\ Goto(next)
        ELSE \E result \in {"ok", "OSError"} :
             /\ calls' = calls \o <<Returned("path.exists", <<ArgScript>>, "False"),
                                    Call("save_script", <<ArgScript>>, result)>>
             /\ IF result = "ok"
                THEN /\ script_path' = Some(save_script(ArgScript))
                     /\ Goto(next)
                ELSE /\ UNCHANGED script_path
                     /\ Raise(result, "None")

InlineImports_discarded(next) ==
    IF args.inline
    THEN \E result \in {"ok", "FlattenError"} :
         /\ calls' = Append(calls, Call("flatten", script_path, result))
         /\ UNCHANGED script_path
         /\ IF result = "ok" THEN Goto(next) ELSE Raise(result, "None")
    ELSE /\ UNCHANGED <<calls, script_path>>
         /\ Goto(next)

\* if args.inline: script_path = flatten(script_path, args.importbase)
InlineImports(next) ==
    IF args.inline
    THEN \E result \in {"ok", "FlattenError"} :
         /\ calls' = Append(calls, Call("flatten", script_path, result))
         /\ IF result = "ok"
            THEN /\ script_path' = Some(flatten(script_path[1]))
                 /\ Goto(next)
            ELSE /\ UNCHANGED script_path
                 /\ Raise(result, "None")
    ELSE /\ UNCHANGED <<calls, script_path>>
         /\ Goto(next)

RunScript ==
    /\ pc = "run_script"
    /\ ParseScriptArg("run_inline")
    /\ UNCHANGED <<argv, first, remote,
                   args, log_level, invoked, hub, device_or_address, metadata,
                   pending>>

RunInline ==
    /\ pc = "run_inline"
    /\ InlineImports("run_pick")
    /\ UNCHANGED <<argv, first, remote,
                   args, log_level, invoked, hub, device_or_address, metadata,
                   pending>>

\* What the "pick the right connection" chain decides:
\*   bound    - hub of class kind created, device_or_address set
\*   discover - hub of class kind created, device_or_address awaits find_device
\*   exit     - message msg on stderr and exit(1)
\*   raise    - exception exc
Bound(kind, device) == [op |-> "bound", kind |-> kind, device |-> device]

Discover(kind) == [op |-> "discover", kind |-> kind]

ExitWith(msg) == [op |-> "exit", msg |-> msg]

RaiseOf(exc) == [op |-> "raise", exc |-> exc]

PickSSH_unchecked(name) ==
    IF name = None
    THEN ExitWith(<<"--name is required for SSH connections">>)
    ELSE Bound("EV3Connection", name)

\* the branch args.conntype == "ssh"
PickSSH(name) ==
    IF name = None
    THEN ExitWith(<<"--name is required for SSH connections">>)
    ELSE IF ~ipv4(name[1])
    THEN RaiseOf("ValueError: Device must be IP address.")
    ELSE Bound("EV3Connection", name)

PickUSB_unchecked(name) == Bound("USBPUPConnection", name)

\* the branch args.conntype == "usb"
PickUSB(name) ==
    IF name = None
    THEN ExitWith(<<"--name is required for USB connections">>)
    ELSE Bound("USBPUPConnection", name)

PickConnection_lego_any(conntype, name) ==
    IF name = Some(Text_lego)
    THEN Bound("USBRPCConnection", Some(LegoLabel))
    ELSE IF conntype = "ssh" THEN PickSSH(name)
    ELSE IF conntype = "ble" THEN Discover("PybricksHub")
    ELSE IF conntype = "usb" THEN PickUSB(name)
    ELSE RaiseOf("ValueError: Unknown connection type")

PickConnection_no_ble(conntype, name) ==
    IF conntype = "ssh" THEN PickSSH(name)
    ELSE IF conntype = "usb" /\ name = Some(Text_lego)
    THEN Bound("USBRPCConnection", Some(LegoLabel))
    ELSE IF conntype = "usb" THEN PickUSB(name)
    ELSE RaiseOf("ValueError: Unknown connection type")

\* the if/elif chain on args.conntype and args.name
PickConnection(conntype, name) ==
    IF conntype = "ssh" THEN PickSSH(name)
    ELSE IF conntype = "ble" THEN Discover("PybricksHub")
    ELSE IF conntype = "usb" /\ name = Some(Text_lego)
    THEN Bound("USBRPCConnection", Some(LegoLabel))
    ELSE IF conntype = "usb" THEN PickUSB(name)
    ELSE RaiseOf("ValueError: Unknown connection type")

RunPick_connects ==
    /\ pc = "run_pick"
    /\ LET pick == PickConnection(args.conntype, args.name)
       IN  CASE pick.op = "bound" ->
                    /\ hub' = [kind |-> pick.kind, state |-> "Connected"]
                    /\ device_or_address' = pick.device
                    /\ Goto("run_connect")
              [] pick.op = "discover" ->
                    /\ hub' = [kind |-> pick.kind, state |-> "Unbound"]
                    /\ UNCHANGED device_or_address
                    /\ Goto("run_find_device")
              [] pick.op = "exit" ->
                    /\ SysExit(1, <<pick.msg>>)
                    /\ UNCHANGED <<hub, device_or_address>>
              [] pick.op = "raise" ->
                    /\ Raise(pick.exc, "None")
                    /\ UNCHANGED <<hub, device_or_address>>
    /\ UNCHANGED <<argv, first, remote,
                   args, log_level, invoked, calls, script_path, metadata,
                   pending>>

\* Pick the right connection
RunPick ==
    /\ pc = "run_pick"
    /\ LET pick == PickConnection(args.conntype, args.name)
       IN  CASE pick.op = "bound" ->
                    /\ hub' = [kind |-> pick.kind, state |-> "Bound"]
                    /\ device_or_address' = pick.device
                    /\ Goto("run_connect")
              [] pick.op = "discover" ->
                    /\ hub' = [kind |-> pick.kind, state |-> "Unbound"]
                    /\ UNCHANGED device_or_address
                    /\ Goto("run_find_device")
              [] pick.op = "exit" ->
                    /\ SysExit(1, <<pick.msg>>)
                    /\ UNCHANGED <<hub, device_or_address>>
              [] pick.op = "raise" ->
                    /\ Raise(pick.exc, "None")
                    /\ UNCHANGED <<hub, device_or_address>>
    /\ UNCHANGED <<argv, first, remote,
                   args, log_level, invoked, calls, script_path, metadata,
                   pending>>

RunFindDevice_swallowed ==
    /\ pc = "run_find_device"
    /\ \E result \in {"ok", "DeviceNotFound"} :
        /\ calls' = Append(calls, Call("find_device", args.name, result))
        /\ device_or_address' =
               IF result = "ok" THEN Some(find_device(args.name)) ELSE None
        /\ hub' = [hub EXCEPT !.state = "Bound"]
        /\ Goto("run_connect")
    /\ UNCHANGED <<argv, first, remote,
                   args, log_level, invoked, script_path, metadata, pending>>

\* device_or_address = await find_device(args.name)
RunFindDevice ==
    /\ pc = "run_find_device"
    /\ \E result \in {"ok", "DeviceNotFound"} :
        /\ calls' = Append(calls, Call("find_device", args.name, result))
        /\ IF result = "ok"
           THEN /\ device_or_address' = Some(find_device(args.name))
                /\ hub' = [hub EXCEPT !.state = "Bound"]
                /\ Goto("run_connect")
           ELSE /\ UNCHANGED <<device_or_address, hub>>
                /\ Raise(result, "None")
    /\ UNCHANGED <<argv, first, remote,
                   args, log_level, invoked, script_path, metadata, pending>>

RunConnect_swallowed ==
    /\ pc = "run_connect"
    /\ \E result \in {"ok", "ConnectFailure"} :
        /\ calls' = Append(calls, Call("connect", device_or_address, result))
        /\ hub' = IF result = "ok" THEN [hub EXCEPT !.state = "Connected"] ELSE hub
        /\ Goto("run_op")
    /\ UNCHANGED <<argv, first, remote,
                   args, log_level, invoked, script_path, device_or_address,
                   metadata, pending>>

RunConnect_in_try ==
    /\ pc = "run_connect"
    /\ \E result \in {"ok", "ConnectFailure"} :
        /\ calls' = Append(calls, Call("connect", device_or_address, result))
        /\ IF result = "ok"
           THEN /\ hub' = [hub EXCEPT !.state = "Connected"]
                /\ UNCHANGED pending
                /\ Goto("run_op")
           ELSE /\ UNCHANGED hub
                /\ pending' = result
                /\ Goto("run_disconnect")
    /\ UNCHANGED <<argv, first, remote,
                   args, log_level, invoked, script_path, device_or_address,
                   metadata>>

\* await hub.connect(device_or_address)
RunConnect ==
    /\ pc = "run_connect"
    /\ \E result \in {"ok", "ConnectFailure"} :
        /\ calls' = Append(calls, Call("connect", device_or_address, result))
        /\ IF result = "ok"
           THEN /\ hub' = [hub EXCEPT !.state = "Connected"]
                /\ Goto("run_op")
           ELSE /\ UNCHANGED hub
                /\ Raise(result, "None")
    /\ UNCHANGED <<argv, first, remote,
                   args, log_level, invoked, script_path, device_or_address,
                   metadata, pending>>

WaitFlag_truthy(value) == value # ""

\* the wait argument of hub.run: args.wait == "True"
WaitFlag(value) == value = "True"

\* hub.run(script_path, wait) keeps its caller waiting for the end of the
\* program exactly when wait is set; otherwise it returns once the program
\* is started
RunBlocks(wait) == wait

\* hub.run may return to a waiting caller once the program has signalled
\* its end
RunMayReturn == remote = "terminated"

\* try: await hub.run(script_path, args.wait == "True")
\* the call fails before the program is started, or starts the program and
\* returns at once, or starts it and waits
RunOp ==
    /\ pc = "run_op"
    /\ LET wait == WaitFlag(args.wait)
           call(result) == Call("run", <<script_path[1], BoolText(wait)>>, result)
       IN  \/ /\ calls' = Append(calls, call("OperationFailure"))
              /\ pending' = "OperationFailure"
              /\ UNCHANGED remote
              /\ Goto("run_disconnect")
           \/ /\ remote' = "running"
              /\ IF RunBlocks(wait)
                 THEN /\ UNCHANGED <<calls, pending>>
                      /\ Goto("run_wait")
                 ELSE /\ calls' = Append(calls, call("ok"))
                      /\ pending' = "None"
                      /\ Goto("run_disconnect")
    /\ UNCHANGED <<argv, first, args, log_level, invoked, script_path, hub,
                   device_or_address, metadata>>

\* the awaited hub.run(script_path, True) ends: it returns after the
\* program's end, or it fails
RunWait ==
    /\ pc = "run_wait"
    /\ LET call(result) == Call("run", <<script_path[1], "True">>, result)
       IN  \/ /\ RunMayReturn
              /\ calls' = Append(calls, call("ok"))
              /\ pending' = "None"
           \/ /\ calls' = Append(calls, call("OperationFailure"))
              /\ pending' = "OperationFailure"
    /\ Goto("run_disconnect")
    /\ UNCHANGED <<argv, first, remote,
                   args, log_level, invoked, script_path, hub,
                   device_or_address, metadata>>

\* the program on the hub ends and signals it
RemoteCompletes ==
    /\ remote = "running"
    /\ remote' = "terminated"
    /\ UNCHANGED <<argv, first, pc, args, log_level, invoked, calls,
                   script_path, hub, device_or_address, metadata, pending,
                   raised, context, stderr, exit_code>>

FinallyEnds_returns(result) ==
    IF result # "ok" THEN Raise(result, pending) ELSE Return

FinallyEnds_suppresses(result) ==
    IF pending # "None" THEN Raise(pending, "None") ELSE Return

\* how the finally block ends: a failure of disconnect replaces the pending
\* exception (which becomes its __context__); otherwise the pending
\* exception, if any, is re-raised
FinallyEnds(result) ==
    IF result # "ok" THEN Raise(result, pending)
    ELSE IF pending # "None" THEN Raise(pending, "None")
    ELSE Return

\* finally: await hub.disconnect()
RunDisconnect ==
    /\ pc = "run_disconnect"
    /\ \E result \in {"ok", "DisconnectFailure"} :
        /\ calls' = Append(calls, Call("disconnect", <<>>, result))
        /\ IF result = "ok"
           THEN hub' = [hub EXCEPT !.state = "Closed"]
           ELSE \E state \in {"Connected", "Closed"} :
                    hub' = [hub EXCEPT !.state = state]
        /\ FinallyEnds(result)
    /\ UNCHANGED <<argv, first, remote,
                   args, log_level, invoked, script_path, device_or_address,
                   metadata, pending>>

-----------------------------------------------------------------------------
(* Flash.run *)

\* device kinds a firmware's metadata["device-id"] may name
HubKinds == {"BOOST", "CITY_2_PORT", "TECHNIC_4_PORT", "PRIME"}

Firmware == <<"firmware">>

\* firmware, metadata = await create_firmware(args.firmware)
FlashCreateFirmware ==
    /\ pc = "flash_create_firmware"
    /\ \/ \E kind \in HubKinds :
            /\ calls' = Append(calls,
                   Returned("create_firmware", <<"args.firmware">>, kind))
            /\ metadata' = Some(kind)
            /\ Goto("flash_select")
       \/ /\ calls' = Append(calls,
                 Call("create_firmware", <<"args.firmware">>, "FirmwareError"))
          /\ UNCHANGED metadata
          /\ Raise("FirmwareError", "None")
    /\ UNCHANGED <<argv, first, remote,
                   args, log_level, invoked, script_path, hub,
                   device_or_address, pending>>

FlashSelect_inverted ==
    /\ pc = "flash_select"
    /\ IF metadata # Some("PRIME") THEN Goto("flash_dfu") ELSE Goto("flash_find_device")
    /\ UNCHANGED <<args, log_level, invoked, calls, sessionVars>>

\* if metadata["device-id"] == HubKind.PRIME
FlashSelect ==
    /\ pc = "flash_select"
    /\ IF metadata = Some("PRIME") THEN Goto("flash_dfu") ELSE Goto("flash_find_device")
    /\ UNCHANGED <<args, log_level, invoked, calls, sessionVars>>

\* flash_dfu(firmware, metadata)
FlashDfu ==
    /\ pc = "flash_dfu"
    /\ \E result \in {"ok", "DfuError"} :
        /\ calls' = Append(calls, Call("flash_dfu", <<Firmware, metadata>>, result))
        /\ IF result = "ok" THEN Return ELSE Raise(result, "None")
    /\ UNCHANGED <<args, log_level, invoked, sessionVars>>

\* device = await find_device(service=LWP3_BOOTLOADER_SERVICE_UUID)
FlashFindDevice ==
    /\ pc = "flash_find_device"
    /\ \E result \in {"ok", "DeviceNotFound"} :
        /\ calls' = Append(calls,
               Call("find_device", <<"service=LWP3_BOOTLOADER_SERVICE_UUID">>, result))
        /\ IF result = "ok"
           THEN /\ device_or_address' = Some(find_device(None))
                /\ Goto("flash_connect")
           ELSE /\ UNCHANGED device_or_address
                /\ Raise(result, "None")
    /\ UNCHANGED <<argv, first, remote,
                   args, log_level, invoked, script_path, hub, metadata, pending>>

\* updater = BootloaderConnection(); await updater.connect(device)
FlashConnect ==
    /\ pc = "flash_connect"
    /\ \E result \in {"ok", "ConnectFailure"} :
        /\ calls' = Append(calls, Call("connect", device_or_address, result))
        /\ IF result = "ok"
           THEN /\ hub' = [kind |-> "BootloaderConnection", state |-> "Connected"]
                /\ Goto("flash_flash")
           ELSE /\ hub' = [kind |-> "BootloaderConnection", state |-> "Bound"]
                /\ Raise(result, "None")
    /\ UNCHANGED <<argv, first, remote,
                   args, log_level, invoked, script_path, device_or_address,
                   metadata, pending>>

\* await updater.flash(firmware, metadata)
FlashFlash ==
    /\ pc = "flash_flash"
    /\ \E result \in {"ok", "OperationFailure"} :
        /\ calls' = Append(calls, Call("flash", <<Firmware, metadata>>, result))
        /\ IF result = "ok" THEN Return ELSE Raise(result, "None")
    /\ UNCHANGED <<args, log_level, invoked, sessionVars>>

-----------------------------------------------------------------------------
(* Compile.run *)

CompileScript ==
    /\ pc = "compile_script"
    /\ ParseScriptArg("compile_inline")
    /\ UNCHANGED <<argv, first, remote,
                   args, log_level, invoked, hub, device_or_address, metadata,
                   pending>>

CompileInline ==
    /\ pc = "compile_inline"
    /\ InlineImports("compile_file")
    /\ UNCHANGED <<argv, first, remote,
                   args, log_level, invoked, hub, device_or_address, metadata,
                   pending>>

\* mpy = await compile_file(script_path); print_mpy(mpy)
CompileFile ==
    /\ pc = "compile_file"
    /\ \E result \in {"ok", "CompileError"} :
        IF result = "ok"
        THEN /\ calls' = calls \o <<Call("compile_file", script_path, result),
                                    Call("print_mpy", <<"mpy">>, "ok")>>
             /\ Return
        ELSE /\ calls' = Append(calls, Call("compile_file", script_path, result))
             /\ Raise(result, "None")
    /\ UNCHANGED <<args, log_level, invoked, sessionVars>>

-----------------------------------------------------------------------------
(* DFU.run, DFUBackup.run, DFURestore.run *)

Forward_first_child(tools, what, selector) ==
    IF selector \notin Keys(Choices(tools))
    THEN /\ ParserError(MissingName(what, Choices(tools)))
         /\ UNCHANGED invoked
    ELSE /\ invoked' = Append(invoked, tools[1])
         /\ Goto(Entry(tools[1]))

\* the check of the selector of a group against its registered children and
\* the forwarding to subparsers.choices[selector].tool.run(args)
Forward(tools, what, selector) ==
    IF selector \notin Keys(Choices(tools))
    THEN /\ ParserError(MissingName(what, Choices(tools)))
         /\ UNCHANGED invoked
    ELSE LET tool == ToolOf(tools, selector)
         IN  /\ invoked' = Append(invoked, tool)
             /\ Goto(Entry(tool))

DFURun ==
    /\ pc = "dfu_run"
    /\ Forward(DFUTools, "action", args.action)
    /\ UNCHANGED <<args, log_level, calls, sessionVars>>

\* backup_dfu(args.firmware)
DFUBackupRun ==
    /\ pc = "dfu_backup"
    /\ \E result \in {"ok", "DfuError"} :
        /\ calls' = Append(calls, Call("backup_dfu", <<"args.firmware">>, result))
        /\ IF result = "ok" THEN Return ELSE Raise(result, "None")
    /\ UNCHANGED <<args, log_level, invoked, sessionVars>>

\* restore_dfu(args.firmware)
DFURestoreRun ==
    /\ pc = "dfu_restore"
    /\ \E result \in {"ok", "DfuError"} :
        /\ calls' = Append(calls, Call("restore_dfu", <<"args.firmware">>, result))
        /\ IF result = "ok" THEN Return ELSE Raise(result, "None")
    /\ UNCHANGED <<args, log_level, invoked, sessionVars>>

-----------------------------------------------------------------------------
(* LWP3.run, LWP3Repl.run, Udev.run *)

LWP3Run ==
    /\ pc = "lwp3_run"
    /\ Forward(LWP3Tools, "tool", args.lwp3_tool)
    /\ UNCHANGED <<args, log_level, calls, sessionVars>>

\* setup_repl_logging(); return repl()
LWP3ReplRun ==
    /\ pc = "lwp3_repl"
    /\ \E result \in {"ok", "ReplError"} :
        /\ calls' = calls \o <<Call("setup_repl_logging", <<>>, "ok"),
                               Call("repl", <<>>, result)>>
        /\ IF result = "ok" THEN Return ELSE Raise(result, "None")
    /\ UNCHANGED <<args, log_level, invoked, sessionVars>>

\* print(read_text(resources, resources.UDEV_RULES))
UdevRun ==
    /\ pc = "udev_run"
    /\ calls' = Append(calls, Call("read_text", <<"resources.UDEV_RULES">>, "ok"))
    /\ Return
    /\ UNCHANGED <<args, log_level, invoked, sessionVars>>

-----------------------------------------------------------------------------

Next ==
    \/ ParseArgs
    \/ BasicConfig
    \/ CheckTool
    \/ Dispatch
    \/ RunScript
    \/ RunInline
    \/ RunPick
    \/ RunFindDevice
    \/ RunConnect
    \/ RunOp
    \/ RunWait
    \/ RemoteCompletes
    \/ RunDisconnect
    \/ FlashCreateFirmware
    \/ FlashSelect
    \/ FlashDfu
    \/ FlashFindDevice
    \/ FlashConnect
    \/ FlashFlash
    \/ CompileScript
    \/ CompileInline
    \/ CompileFile
    \/ DFURun
    \/ DFUBackupRun
    \/ DFURestoreRun
    \/ LWP3Run
    \/ LWP3ReplRun
    \/ UdevRun

Spec == Init /\ [][Next]_vars

\* what an ended invocation did: its flags, the tools it ran, its calls and
\* how it ended
Observation ==
    [flags |-> argv.flags, invoked |-> invoked, calls |-> calls,
     raised |-> raised, context |-> context, exit_code |-> exit_code,
     stderr |-> stderr, hub |-> hub.kind, device |-> device_or_address]

\* the same words are invoked once more with other global flags, after the
\* first invocation has ended
Restart ==
    /\ pc = "done"
    /\ first = None
    /\ first' = Some(Observation)
    /\ \E f \in Flags \ {argv.flags} :
           argv' = [argv EXCEPT !.flags = f, !.ns.debug = f.debug]
    /\ pc' = "parse_args"
    /\ args' = Namespace0
    /\ log_level' = "NOTSET"
    /\ invoked' = <<>>
    /\ calls' = <<>>
    /\ script_path' = None
    /\ hub' = NoHub
    /\ device_or_address' = None
    /\ metadata' = None
    /\ pending' = "None"
    /\ raised' = "None"
    /\ context' = "None"
    /\ stderr' = <<>>
    /\ exit_code' = -1
    /\ remote' = "idle"

TwinNext == Next \/ Restart

\* two invocations of the same words, one after the other
TwinSpec == Init /\ [][TwinNext]_vars

\* the steps of the process itself
ProgramNext == Next /\ pc' # pc /\ pc # "run_wait"

\* the process is never stopped for good while it can take a step and does
\* not wait for the program on the hub, about which nothing is assumed
FairSpec == Spec /\ WF_vars(ProgramNext)

-----------------------------------------------------------------------------
(* Reading the log of collaborator calls *)

\* positions of the calls of fn
Calls(fn) == {i \in DOMAIN calls : calls[i].fn = fn}

Called(fn) == Calls(fn) # {}

\* positions of the calls of fn that ended with result
CallsEnding(fn, result) == {i \in Calls(fn) : calls[i].result = result}

\* positions of the calls of fn that raised
CallsFailing(fn) == {i \in Calls(fn) : calls[i].result # "ok"}

\* the transport calls of a session
TransportCalls == {"find_device", "connect", "run", "flash", "disconnect"}

RunSession == invoked = <<"Run">>

FlashSession == invoked = <<"Flash">>

Terminated == pc = "done"

-----------------------------------------------------------------------------
(* C1 *)

\* C1: in every command that connects a transport (run, and flash on its
\* bootloader path), once connect has succeeded the invocation does not
\* terminate without a disconnect having been attempted after it.
C1_DisconnectOnEveryExit ==
    (Terminated /\ (RunSession \/ FlashSession)) =>
        \A i \in CallsEnding("connect", "ok") :
            \E j \in Calls("disconnect") : j > i

\* the same statement for the run command alone, which the code satisfies
C1_RunDisconnects ==
    (Terminated /\ RunSession) =>
        \A i \in CallsEnding("connect", "ok") :
            \E j \in Calls("disconnect") : j > i

-----------------------------------------------------------------------------
(* C2 *)

\* C2: within one run session the transport calls happen in the order
\* connect, hub.run, disconnect: each is made at most once, hub.run only
\* after a connect that returned successfully (and on a Connected hub),
\* disconnect only after hub.run has returned or failed, and nothing is
\* called after disconnect; the failure paths included.
C2_RunOrder ==
    RunSession =>
        /\ Cardinality(Calls("connect")) <= 1
        /\ Cardinality(Calls("run")) <= 1
        /\ Cardinality(Calls("disconnect")) <= 1
        /\ \A i \in Calls("run") :
               \E j \in CallsEnding("connect", "ok") : j < i
        /\ \A i \in Calls("disconnect") :
               /\ \E j \in Calls("run") : j < i
               /\ i = Len(calls)
        /\ pc = "run_op" => hub.state = "Connected" /\ ~Called("run")
        /\ pc = "run_disconnect" => Called("run") /\ ~Called("disconnect")

\* a run session that ended on the failure path, all three calls made
C2_Witness ==
    /\ RunSession
    /\ Terminated
    /\ CallsEnding("connect", "ok") # {}
    /\ CallsFailing("run") # {}
    /\ Called("disconnect")

-----------------------------------------------------------------------------
(* C3 *)

-----------------------------------------------------------------------------
(* C4 *)

\* C4: when the operation fails and the disconnect that follows fails too,
\* the exception surfaced to the caller is the operation's original one.
C4_DisconnectNeverMasks ==
    (RunSession /\ Terminated /\ CallsFailing("run") # {}
        /\ CallsFailing("disconnect") # {}) =>
        raised = "OperationFailure"

\* what the code does in that case: the disconnect failure is surfaced and
\* the operation's failure survives only as its __context__
C4_DisconnectFailureReplaces ==
    (RunSession /\ Terminated /\ CallsFailing("run") # {}
        /\ CallsFailing("disconnect") # {}) =>
        raised = "DisconnectFailure" /\ context = "OperationFailure"

-----------------------------------------------------------------------------
(* C5 *)

\* C5: if connect fails the hub stays Bound: no operation and no disconnect
\* is ever called on it, and the connect failure is the exception surfaced.
C5_ConnectFailureAbandons ==
    CallsFailing("connect") # {} =>
        /\ hub.state = "Bound"
        /\ ~Called("run") /\ ~Called("flash") /\ ~Called("disconnect")
        /\ Terminated
        /\ raised = "ConnectFailure"
        /\ context = "None"
        /\ exit_code = 1

\* a run session whose connect failed
C5_Witness ==
    /\ RunSession
    /\ Terminated
    /\ CallsFailing("connect") # {}

-----------------------------------------------------------------------------
(* C6 *)

\* C6: when the operation on a connected transport (hub.run, or the flash
\* of the bootloader path) succeeded and a disconnect then fails, the
\* invocation ends with the disconnect failure, not with success.
C6_DisconnectFailureSurfaces ==
    (Terminated
        /\ (CallsEnding("run", "ok") # {} \/ CallsEnding("flash", "ok") # {})
        /\ CallsFailing("disconnect") # {}) =>
        /\ raised = "DisconnectFailure"
        /\ context = "None"
        /\ exit_code = 1

\* hub.run succeeded, disconnect failed, the session is over
C6_Witness ==
    /\ RunSession
    /\ Terminated
    /\ CallsEnding("run", "ok") # {}
    /\ CallsFailing("disconnect") # {}

-----------------------------------------------------------------------------
(* C7, C8, C9: the connection chosen by Run.run *)

\* the texts of NameTexts that are IPv4 literals, listed by hand
IPv4Texts ==
    { Text_192_168_1_2,
      <<"0", ".", "0", ".", "0", ".", "2", "5", "5">> }

\* a run command whose identifier is missing or malformed
Malformed(a) ==
    /\ a.tool = "run"
    /\ \/ a.conntype = "ssh" /\ a.name = None
       \/ a.conntype = "ssh" /\ a.name # None /\ a.name[1] \notin IPv4Texts
       \/ a.conntype = "usb" /\ a.name = None

\* Run.run is past its "pick the right connection" chain
Resolved ==
    /\ RunSession
    /\ \/ pc \in {"run_find_device", "run_connect", "run_op", "run_wait",
                  "run_disconnect"}
       \/ Terminated /\ raised \notin {"OSError", "FlattenError"}

C9_LegoReservedForUSB ==
    /\ (Resolved /\ args.name = Some(Text_lego)) =>
        /\ args.conntype = "usb" =>
               /\ hub.kind = "USBRPCConnection"
               /\ device_or_address = Some(LegoLabel)
               /\ stderr = <<>>
               /\ \A i \in Calls("connect") : calls[i].arg = Some(LegoLabel)
        /\ args.conntype = "ble" =>
               /\ hub.kind = "PybricksHub"
               /\ \A i \in Calls("find_device") : calls[i].arg = Some(Text_lego)
               /\ \A i \in Calls("connect") :
                      calls[i].arg = Some(find_device(Some(Text_lego)))
        /\ args.conntype = "ssh" =>
               /\ hub = NoHub
               /\ raised = "ValueError: Device must be IP address."
    /\ hub.kind = "USBRPCConnection" =>
        args.conntype = "usb" /\ args.name = Some(Text_lego)

\* run usb --name lego --wait False --inline-imports -d has connected
C9_Witness ==
    /\ Resolved
    /\ args.conntype = "usb"
    /\ args.name = Some(Text_lego)
    /\ args.wait = "False"
    /\ args.inline
    /\ args.debug
    /\ hub = [kind |-> "USBRPCConnection", state |-> "Connected"]

-----------------------------------------------------------------------------
(* C10 *)

\* the command line names no tool
NoToolNamed == argv.ns.tool = "None"

\* the message of the missing-subcommand error of main()
MissingToolMessage ==
    <<"Missing name of ", "tool", ": ",
      "compile", "|", "run", "|", "flash", "|", "dfu", "|", "lwp3", "|", "udev">>

\* C10 as stated: every invocation that names no tool ends with the
\* missing-subcommand error listing compile, run, flash, dfu, lwp3, udev and
\* a non-zero exit status, no tool run and no collaborator called.
C10_NoToolAlwaysFails ==
    (Terminated /\ NoToolNamed) =>
        /\ raised = "SystemExit"
        /\ exit_code # 0
        /\ stderr = <<MissingToolMessage>>
        /\ invoked = <<>>
        /\ calls = <<>>

\* C10: an invocation that names no tool never runs a tool, creates no hub
\* and calls no collaborator; it ends with the missing-subcommand error
\* listing exactly compile, run, flash, dfu, lwp3, udev and exit status 2,
\* unless -h/--help or -v/--version is given, which make parse_args exit
\* with status 0 before the check.
C10_NoToolFailsUnlessHelpOrVersion ==
    NoToolNamed =>
        /\ invoked = <<>>
        /\ calls = <<>>
        /\ hub = NoHub
        /\ Terminated =>
               /\ raised = "SystemExit"
               /\ IF argv.flags.help \/ argv.flags.version
                  THEN exit_code = 0 /\ stderr = <<>>
                  ELSE exit_code = 2 /\ stderr = <<MissingToolMessage>>

\* an invocation without tool, -h and -v has ended
C10_Witness ==
    /\ NoToolNamed
    /\ ~argv.flags.help
    /\ ~argv.flags.version
    /\ Terminated
    /\ exit_code = 2

-----------------------------------------------------------------------------
(* C11 *)

\* the command line names a group (dfu, lwp3) and parsing is not ended by
\* -h or -v
GroupLine ==
    /\ argv.ns.tool \in {"dfu", "lwp3"}
    /\ ~argv.flags.help
    /\ ~argv.flags.version

\* the selector value of the group named on the command line
Selector == IF argv.ns.tool = "dfu" THEN argv.ns.action ELSE argv.ns.lwp3_tool

\* the class of the group and, listed by hand, the class registered under
\* each child name of each group
GroupClass == IF argv.ns.tool = "dfu" THEN "DFU" ELSE "LWP3"

ChildClass ==
    IF argv.ns.tool = "dfu"
    THEN [backup |-> "DFUBackup", restore |-> "DFURestore"]
    ELSE [repl |-> "LWP3Repl"]

\* the error of the group for its selector: the group's own message when no
\* selector is given, the parser's when the word is no registered child; both
\* carry the child names of the group
SelectorError ==
    IF argv.ns.tool = "dfu"
    THEN IF Selector = "None"
         THEN <<"Missing name of ", "action", ": ", "backup", "|", "restore">>
         ELSE <<"invalid choice: ", Selector, " (choose from ",
                "backup", ", ", "restore", ")">>
    ELSE IF Selector = "None"
         THEN <<"Missing name of ", "tool", ": ", "repl">>
         ELSE <<"invalid choice: ", Selector, " (choose from ", "repl", ")">>

\* C11: for the groups dfu and lwp3 and every selector value, the invocation
\* forwards to the one child registered under the selector, and it ends
\* with the error that carries the group's child names, exit status 2 and
\* no child run exactly when the selector is no registered child name.
C11_GroupResolution ==
    GroupLine =>
        IF Selector \in DOMAIN ChildClass
        THEN /\ invoked \in {<<>>, <<GroupClass>>, <<GroupClass, ChildClass[Selector]>>}
             /\ stderr # <<SelectorError>>
             /\ (Terminated /\ argv.firmware_ok) =>
                    invoked = <<GroupClass, ChildClass[Selector]>>
        ELSE /\ invoked \in {<<>>, <<GroupClass>>}
             /\ calls = <<>>
             /\ Terminated =>
                    /\ raised = "SystemExit"
                    /\ exit_code = 2
                    /\ stderr = <<SelectorError>>

\* dfu restore has been forwarded to DFURestore and has ended
C11_Witness ==
    /\ GroupLine
    /\ Selector = "restore"
    /\ Terminated
    /\ invoked = <<"DFU", "DFURestore">>
    /\ Called("restore_dfu")

\* dfu without action has ended with the group's error
C11_WitnessMissing ==
    /\ GroupLine
    /\ Selector = "None"
    /\ argv.ns.tool = "dfu"
    /\ Terminated
    /\ invoked = <<"DFU">>
    /\ exit_code = 2

-----------------------------------------------------------------------------
(* C12 *)

\* the Tool classes that are leaves: their run does the work itself
Leaves ==
    {"Compile", "Run", "Flash", "Udev", "DFUBackup", "DFURestore", "LWP3Repl"}

\* positions of invoked that hold a leaf
LeafRuns == {i \in DOMAIN invoked : invoked[i] \in Leaves}

\* parse_args returned a namespace that names a top-level command and main()
\* has dispatched on it
Dispatched ==
    /\ args.tool # "None"
    /\ pc \notin {"parse_args", "basicConfig", "check_tool", "dispatch"}

\* the command is a group and no selector was given for it
SelectorMissing ==
    \/ args.tool = "dfu" /\ args.action = "None"
    \/ args.tool = "lwp3" /\ args.lwp3_tool = "None"

\* the leaf class a namespace designates, listed by hand
ExpectedLeaf ==
    CASE args.tool = "compile" -> "Compile"
      [] args.tool = "run" -> "Run"
      [] args.tool = "flash" -> "Flash"
      [] args.tool = "udev" -> "Udev"
      [] args.tool = "dfu" /\ args.action = "backup" -> "DFUBackup"
      [] args.tool = "dfu" /\ args.action = "restore" -> "DFURestore"
      [] args.tool = "lwp3" /\ args.lwp3_tool = "repl" -> "LWP3Repl"

\* C12 as stated: every invocation that passed parsing with a top-level
\* command has, when it ends, run exactly one leaf, exactly once.
C12_ExactlyOneLeaf ==
    (Dispatched /\ Terminated) => Cardinality(LeafRuns) = 1

\* C12: an invocation that passed parsing with a top-level command never
\* runs more than one leaf and never the same run twice; when it ends it has
\* run exactly one leaf, the one the command line designates, exactly once,
\* unless the command is a group (dfu, lwp3) given without selector, where
\* the group's run ends with the missing-subcommand error and no leaf runs.
C12_OneLeafUnlessSelectorMissing ==
    Dispatched =>
        /\ Cardinality(LeafRuns) <= 1
        /\ \A i, j \in DOMAIN invoked : invoked[i] = invoked[j] => i = j
        /\ \A i \in LeafRuns : i = Len(invoked) /\ invoked[i] = ExpectedLeaf
        /\ Terminated =>
               IF SelectorMissing
               THEN LeafRuns = {} /\ exit_code = 2 /\ calls = <<>>
               ELSE Cardinality(LeafRuns) = 1

\* dfu backup has ended: the group forwarded to its one leaf
C12_Witness ==
    /\ Dispatched
    /\ Terminated
    /\ invoked = <<"DFU", "DFUBackup">>
    /\ Called("backup_dfu")

-----------------------------------------------------------------------------
(* C13 *)

C13_WaitInv ==
    RunSession =>
        /\ \A i \in Calls("run") : calls[i].arg[2] = args.wait
        /\ args.wait = "False" => pc # "run_wait"
        /\ (args.wait = "True" /\ CallsEnding("run", "ok") # {}) =>
               remote = "terminated"
        /\ (args.wait = "True" /\ Called("disconnect") /\ remote # "terminated") =>
               CallsFailing("run") # {}
        /\ (Terminated /\ CallsEnding("disconnect", "ok") # {}) =>
               hub.state = "Closed"

-----------------------------------------------------------------------------
(* C14 *)

SameCall(a, b) ==
    a.fn = b.fn /\ a.arg = b.arg /\ a.result = b.result /\ a.value = b.value

\* the positions at which two logs of calls differ
Differing(c1, c2) ==
    {i \in 1..(IF Len(c1) < Len(c2) THEN Len(c1) ELSE Len(c2)) :
        ~SameCall(c1[i], c2[i])}

\* the collaborators answered the two invocations differently: the first
\* difference of the logs is the same call ending differently
AnsweredDifferently(c1, c2) ==
    \E i \in Differing(c1, c2) :
        /\ \A j \in Differing(c1, c2) : i <= j
        /\ c1[i].fn = c2[i].fn
        /\ c1[i].arg = c2[i].arg

\* the invocation that has ended did what the first one did
SameAsFirst ==
    /\ invoked = first[1].invoked
    /\ Len(calls) = Len(first[1].calls)
    /\ Differing(calls, first[1].calls) = {}
    /\ raised = first[1].raised
    /\ context = first[1].context
    /\ exit_code = first[1].exit_code
    /\ stderr = first[1].stderr
    /\ hub.kind = first[1].hub

\* both invocations of the same words have ended and the collaborators
\* answered them alike
TwinsEnded ==
    /\ first # None
    /\ Terminated
    /\ ~AnsweredDifferently(calls, first[1].calls)

\* C14 as stated: two invocations that differ only in -d/--debug and
\* -v/--version run the same tools and make the same calls with the same
\* outcome.
C14_GlobalFlagsNoControlFlow ==
    (TwinsEnded /\ argv.flags.help = first[1].flags.help) => SameAsFirst

\* C14: two invocations that differ only in -d/--debug run the same tools,
\* make the same calls and end the same way; the flag decides the log level
\* only.
C14_DebugNoControlFlow ==
    /\ (TwinsEnded /\ argv.flags.help = first[1].flags.help
            /\ argv.flags.version = first[1].flags.version) => SameAsFirst
    /\ log_level \in {"NOTSET", IF argv.flags.debug THEN "DEBUG" ELSE "WARNING"}

\* a run session has ended after disconnect, twice, with and without -d
C14_Witness ==
    /\ TwinsEnded
    /\ argv.flags = [debug |-> TRUE, version |-> FALSE, help |-> FALSE]
    /\ first[1].flags = [debug |-> FALSE, version |-> FALSE, help |-> FALSE]
    /\ RunSession
    /\ Called("disconnect")
    /\ log_level = "DEBUG"

-----------------------------------------------------------------------------
(* C15 *)

\* the order of the states of a transport handle
Rank(state) ==
    CASE state = "None" -> 0
      [] state = "Unbound" -> 1
      [] state = "Bound" -> 2
      [] state = "Connected" -> 3
      [] state = "Closed" -> 4

\* the step makes a call of fn
NewCall(fn) ==
    \E i \in (Len(calls) + 1)..Len(calls') : calls'[i].fn = fn

\* a step of the lifecycle of the one handle of an invocation
HandleStep ==
    /\ hub.kind # "None" => hub'.kind = hub.kind
    /\ Rank(hub'.state) >= Rank(hub.state)
    /\ Rank(hub'.state) > Rank(hub.state) =>
           \/ hub.state = "None" /\ hub'.state \in {"Unbound", "Bound"}
           \/ hub.state = "Unbound" /\ hub'.state = "Bound"
           \/ hub.state = "Bound" /\ hub'.state = "Connected"
           \/ hub.state = "Connected" /\ hub'.state = "Closed"
    /\ NewCall("connect") =>
           /\ hub.state = "Bound"
           /\ ~Called("connect")
           /\ hub'.state \in {"Bound", "Connected"}
    /\ NewCall("run") => hub.state = "Connected"
    /\ NewCall("disconnect") =>
           /\ hub.state = "Connected"
           /\ ~Called("disconnect")
    /\ hub.state = "Closed" =>
           ~(NewCall("connect") \/ NewCall("run") \/ NewCall("disconnect"))

\* C15: a run session has one transport handle, whose state only moves
\* forward along Unbound, Bound, Connected, Closed; connect is called at
\* most once and on a Bound handle, disconnect at most once and on a
\* Connected handle, and nothing is called on a Closed handle.
C15_HandleLifecycle == [][RunSession => HandleStep]_vars

\* a run session has ended with its handle Closed
C15_Witness ==
    /\ RunSession
    /\ Terminated
    /\ hub.state = "Closed"
    /\ CallsEnding("connect", "ok") # {}
    /\ Called("run")

-----------------------------------------------------------------------------
(* C16 *)

\* the calls of fns all come after a call of connect
OnlyAfterConnect(fns) ==
    \A i \in DOMAIN calls :
        calls[i].fn \in fns => \E j \in Calls("connect") : j <= i

\* C16 as stated, its part on collaborators: in a run session no transport
\* collaborator (find_device included) is called before connect is.
C16_NothingBeforeConnect == RunSession => OnlyAfterConnect(TransportCalls)

\* C16: picking the connection never connects: when connect is about to be
\* called the hub is Bound and connect was not called.  For ssh, usb and
\* usb with lego no transport collaborator is called before connect; for
\* ble find_device (the discovery scan), and only it, is called before
\* connect.  A second invocation of the same words that reaches connect
\* has picked the same class of hub and the same device_or_address as the
\* first one.
C16_ResolutionOnlyBinds ==
    RunSession =>
        /\ pc = "run_connect" =>
               /\ hub.state = "Bound"
               /\ ~Called("connect")
               /\ device_or_address # None \/ args.conntype = "usb"
        /\ OnlyAfterConnect(TransportCalls \ {"find_device"})
        /\ args.conntype # "ble" => OnlyAfterConnect({"find_device"})
        /\ args.conntype = "ble" =>
               \A i \in Calls("find_device") :
                   /\ i < Len(calls) => calls[i + 1].fn = "connect"
                   /\ \A j \in Calls("find_device") : i = j
        /\ (first # None /\ first[1].device # None /\ pc = "run_connect") =>
               /\ hub.kind = first[1].hub
               /\ device_or_address = first[1].device

\* run ssh with an IPv4 name is about to connect for the second time
C16_Witness ==
    /\ RunSession
    /\ first # None
    /\ first[1].device # None
    /\ pc = "run_connect"
    /\ args.conntype = "ssh"
    /\ calls # <<>>
    /\ hub = [kind |-> "EV3Connection", state |-> "Bound"]

-----------------------------------------------------------------------------
(* C17 *)

\* every call of fn comes after a call of before that ended ok
Precedes(before, fn) ==
    \A i \in Calls(fn) : \E j \in CallsEnding(before, "ok") : j < i

Flashers == Calls("flash_dfu") \cup Calls("flash")

\* C17: in a flash session the firmware is created once, before anything
\* else, and handed to a flasher at most once.  When the metadata name
\* HubKind.PRIME only flash_dfu is called: no find_device, connect or
\* flash.  Otherwise flash_dfu is never called, find_device (filtered on
\* the bootloader service) comes before connect and connect before flash.
C17_FlashOrder ==
    FlashSession =>
        /\ Cardinality(Calls("create_firmware")) <= 1
        /\ calls # <<>> => calls[1].fn = "create_firmware"
        /\ metadata = None => Len(calls) <= 1
        /\ Cardinality(Flashers) <= 1
        /\ \A i \in Flashers : calls[i].arg = <<Firmware, metadata>>
        /\ metadata = Some("PRIME") =>
               /\ ~Called("find_device") /\ ~Called("connect") /\ ~Called("flash")
               /\ (Terminated /\ raised = "None") => Called("flash_dfu")
        /\ (metadata # None /\ metadata # Some("PRIME")) =>
               /\ ~Called("flash_dfu")
               /\ \A i \in Calls("find_device") :
                      calls[i].arg = <<"service=LWP3_BOOTLOADER_SERVICE_UUID">>
               /\ Precedes("find_device", "connect")
               /\ Precedes("connect", "flash")
               /\ (Terminated /\ raised = "None") => Called("flash")

\* a hub other than PRIME was found, connected to and flashed
C17_Witness ==
    /\ FlashSession
    /\ Terminated
    /\ raised = "None"
    /\ metadata = Some("BOOST")
    /\ Called("flash")

-----------------------------------------------------------------------------
(* C18 *)

\* C18: a run session over ble, with or without --name, reaches connect
\* only through a find_device(args.name) that ended ok.  When find_device
\* ends with DeviceNotFound the invocation ends with that failure, the hub
\* is never connected and connect, run and disconnect are not called.
C18_DeviceNotFoundPropagates ==
    (RunSession /\ args.conntype = "ble") =>
        /\ \A i \in Calls("find_device") : calls[i].arg = args.name
        /\ Precedes("find_device", "connect")
        /\ CallsEnding("find_device", "DeviceNotFound") # {} =>
               /\ Terminated
               /\ raised = "DeviceNotFound"
               /\ hub = [kind |-> "PybricksHub", state |-> "Unbound"]
               /\ device_or_address = None
               /\ ~Called("connect") /\ ~Called("run") /\ ~Called("disconnect")

\* run ble without --name ended because no device was found
C18_Witness ==
    /\ RunSession
    /\ args.conntype = "ble"
    /\ args.name = None
    /\ CallsEnding("find_device", "DeviceNotFound") # {}
    /\ Terminated

-----------------------------------------------------------------------------
(* C19 *)

UnknownConnectionType == "ValueError: Unknown connection type"

\* the class of hub the branch of a connection type and name creates
BranchKind(conntype, name) ==
    IF conntype = "ssh" THEN "EV3Connection"
    ELSE IF conntype = "ble" THEN "PybricksHub"
    ELSE IF name = Some(Text_lego) THEN "USBRPCConnection"
    ELSE "USBPUPConnection"

\* C19: Run.run only ever sees ble, usb or ssh, with any --name or none,
\* and never fails with Unknown connection type; the hub it creates is the
\* one of the single branch of its connection type.  The chain answers a
\* connection type that is none of the three, as found on a command line
\* parse_args refuses, with Unknown connection type and without creating a
\* hub; on such a command line no hub is created and nothing is called.
C19_UnknownTypeUnreachable ==
    /\ RunSession =>
           /\ args.conntype \in ConnTypeChoices
           /\ raised # UnknownConnectionType
           /\ PickConnection(args.conntype, args.name).op # "raise"
                  \/ args.conntype = "ssh"
           /\ hub # NoHub => hub.kind = BranchKind(args.conntype, args.name)
           /\ Called("connect") => hub # NoHub
    /\ (argv.ns.tool = "run" /\ argv.ns.conntype \notin ConnTypeChoices) =>
           /\ PickConnection(argv.ns.conntype, argv.ns.name)
                  = RaiseOf(UnknownConnectionType)
           /\ ~RunSession
           /\ hub = NoHub
           /\ calls = <<>>

\* run ble without --name created a PybricksHub and called connect
C19_Witness ==
    /\ RunSession
    /\ args.conntype = "ble"
    /\ args.name = None
    /\ hub.kind = "PybricksHub"
    /\ Called("connect")
    /\ Terminated

-----------------------------------------------------------------------------
(* C20 *)

PreparationCalls == {"path.exists", "save_script", "flatten"}

\* the path _parse_script_arg returned, read off the log
PreparedPath ==
    IF \E i \in Calls("path.exists") : calls[i].value = Some("True")
    THEN ArgScript
    ELSE save_script(ArgScript)

\* the log holds a whole script preparation that did not fail
Prepared ==
    /\ Called("path.exists")
    /\ \/ \E i \in Calls("path.exists") : calls[i].value = Some("True")
       \/ CallsEnding("save_script", "ok") # {}
    /\ args.inline => CallsEnding("flatten", "ok") # {}

\* C20: in a run session every call of the script preparation comes before
\* every transport call, and a transport call is made only after the whole
\* preparation went well.  When save_script or flatten fails the invocation
\* ends with that failure, no hub is created and find_device, connect, run
\* and disconnect are not called.  flatten is called exactly when
\* args.inline is set; hub.run gets the path flatten returned for the
\* prepared path when it is set, and the prepared path itself otherwise.
C20_PreparationFirst ==
    RunSession =>
        /\ \A i, j \in DOMAIN calls :
               (calls[i].fn \in PreparationCalls /\ calls[j].fn \in TransportCalls)
                   => i < j
        /\ (\E j \in DOMAIN calls : calls[j].fn \in TransportCalls) => Prepared
        /\ hub # NoHub => Prepared
        /\ (CallsFailing("save_script") \cup CallsFailing("flatten")) # {} =>
               /\ Terminated
               /\ raised \in {"OSError", "FlattenError"}
               /\ hub = NoHub
               /\ \A j \in DOMAIN calls : calls[j].fn \notin TransportCalls
        /\ Called("flatten") => args.inline
        /\ \A i \in Calls("flatten") : calls[i].arg = Some(PreparedPath)
        /\ \A i \in Calls("run") :
               calls[i].arg[1] =
                   IF args.inline THEN flatten(PreparedPath) ELSE PreparedPath

\* an inline script was saved, flattened and handed to hub.run
C20_Witness ==
    /\ RunSession
    /\ args.inline
    /\ CallsEnding("save_script", "ok") # {}
    /\ CallsEnding("run", "ok") # {}
    /\ script_path = Some(flatten(save_script(ArgScript)))

====
